---- MODULE Spec2Model ----
(***************************************************************************)
(* A model of the RinaWarp Ollama bridge: the provider router              *)
(* (rina_provider_router.py), the completion adapter                       *)
(* (rina_litellm_config.py) and the request handlers and gates of          *)
(* server.py.                                                              *)
(*                                                                         *)
(* Text is modelled as a sequence of one-character strings wherever the    *)
(* code looks inside it (str.replace on model ids, base64 payloads);       *)
(* where the code only compares or forwards a string it is a TLA+ string.  *)
(***************************************************************************)
EXTENDS Integers, Sequences, FiniteSets

VARIABLES
    ADMIN_API_KEY,          \* server.py:27, read once at import
    REQUIRE_VALID_LICENSE,  \* server.py:28, read once at import
    monotonic,              \* int(asyncio.get_event_loop().time()): seconds of the monotonic clock
    wallclock,              \* the current Unix time, in seconds
    http,                   \* the last HTTP request handled and what the handler did with it
    ssePc,                  \* where the /sse request is: "idle", "rejected", "streaming", "done", "failed", "cancelled"
    sseReq,                 \* the /sse request and what the handler answered
    sseChunks,              \* the chunks the provider stream has produced so far
    sseEvents,              \* the events written to the response body so far
    wsPc,                   \* where the /ws/ai handler is: "closed", "receive", "stream", "exited", "crashed"
    wsClient,               \* "none", "connected" or "gone"
    wsLicense,              \* the X-RINA-LICENSE header of the connection
    wsLast,                 \* what the last receive_text() produced
    wsSent,                 \* the frames sent since the last message was received
    wsCalls,                \* the adapter calls made for the last message
    wsIdx,                  \* the chunks the provider stream of the last message has produced
    wsFinal,                \* the frames sent by the except block
    wsInvalid,              \* the messages answered "Content required" so far
    wsMsgs                  \* the messages received so far

vars == << ADMIN_API_KEY, REQUIRE_VALID_LICENSE, monotonic, wallclock, http,
           ssePc, sseReq, sseChunks, sseEvents,
           wsPc, wsClient, wsLicense, wsLast, wsSent, wsCalls, wsIdx,
           wsFinal, wsInvalid, wsMsgs >>

configVars == << ADMIN_API_KEY, REQUIRE_VALID_LICENSE >>
clockVars  == << monotonic, wallclock >>
sseVars    == << ssePc, sseReq, sseChunks, sseEvents >>
wsVars     == << wsPc, wsClient, wsLicense, wsLast, wsSent, wsCalls, wsIdx,
                 wsFinal, wsInvalid, wsMsgs >>

----------------------------------------------------------------------------
(* Bounds of the model *)

\* the monotonic clock reads 0..MaxUptime seconds
MaxUptime == 1
\* the Unix time at which the monotonic clock read 0 is one of 1..MaxBootEpoch
MaxBootEpoch == 2
\* a provider stream of an /sse request holds at most MaxChunks chunks
MaxChunks == 3
\* a provider stream of a /ws/ai message holds at most MaxWsChunks chunks
MaxWsChunks == 2
\* a WebSocket connection receives at most MaxMsgs messages
MaxMsgs == 3

----------------------------------------------------------------------------
(* Text helpers *)

RECURSIVE Replace(_, _, _)
\* str.replace(old, new) for a non-empty old: leftmost, non-overlapping
Replace(s, old, new) ==
    IF Len(s) < Len(old) THEN s
    ELSE IF SubSeq(s, 1, Len(old)) = old
         THEN new \o Replace(SubSeq(s, Len(old) + 1, Len(s)), old, new)
         ELSE << s[1] >> \o Replace(Tail(s), old, new)

\* dict.get(key, default) on a JSON object: `has` is the set of keys present
Get(payload, key, default) ==
    IF key \in payload.has THEN payload[key] ELSE default

----------------------------------------------------------------------------
(* rina_provider_router.py *)

OllamaLlama2  == << "o","l","l","a","m","a","/","l","l","a","m","a","2" >>
Gpt4Turbo     == << "g","p","t","-","4","-","t","u","r","b","o" >>
Claude3Sonnet == << "c","l","a","u","d","e","-","3","-","s","o","n","n","e","t" >>
Mixtral8x7b   == << "m","i","x","t","r","a","l","-","8","x","7","b" >>
OllamaMistral == << "o","l","l","a","m","a","/","m","i","s","t","r","a","l" >>

\* the provider strings a caller sends in the model
Providers == { "local", "openai", "anthropic", "groq", "", "azure" }

get_model(provider) ==
    IF provider = "local" THEN OllamaLlama2
    ELSE IF provider = "openai" THEN Gpt4Turbo
    ELSE IF provider = "anthropic" THEN Claude3Sonnet
    ELSE IF provider = "groq" THEN Mixtral8x7b
    ELSE OllamaMistral

Llama == << "l","l","a","m","a" >>
Llava == << "l","l","a","v","a" >>

\* server.py:237
VisionModel(provider) == Replace(get_model(provider), Llama, Llava)

----------------------------------------------------------------------------
(* The license gate, server.py:42-52 *)

\* The values of `exp` a token carries in the model.
ExpValues == 0 .. (MaxBootEpoch + MaxUptime + 1)

\* One dot-separated segment of a token, by what base64.b64decode(seg + "==")
\* and json.loads make of it:
\*   "empty"     the empty segment: decodes to b"", which is no JSON
\*   "notb64"    b64decode raises binascii.Error
\*   "notjson"   decodes to bytes that json.loads rejects
\*   "nonobject" JSON, but a list, string, number or null
\*   "noexp"     a JSON object without `exp`
\*   "expstr"    a JSON object whose `exp` is a string
\*   "exp"       a JSON object whose `exp` is the integer in field exp
Seg(kind, exp) == [kind |-> kind, exp |-> exp]
EmptySeg == Seg("empty", 0)
OpaqueSeg == Seg("notjson", 0)
MalformedSegs == { Seg(k, 0) : k \in {"empty", "notb64", "notjson", "nonobject", "noexp", "expstr"} }
ExpSegs == { Seg("exp", e) : e \in ExpValues }
Segs == MalformedSegs \cup ExpSegs

\* A token is the sequence of its dot-separated segments (str.split(".")); the
\* empty string is the one empty segment. An absent header (None) is <<>>.
NoHeader == << >>
EmptyToken == << EmptySeg >>
Tokens ==
    { << s >> : s \in {EmptySeg, OpaqueSeg, Seg("exp", 0)} }
    \cup { << OpaqueSeg, s >> : s \in Segs }
    \cup { << OpaqueSeg, s, OpaqueSeg >> : s \in {Seg("exp", MaxBootEpoch), Seg("noexp", 0)} }
LicenseHeaders == { NoHeader } \cup Tokens

\* x_rina_license or ""
OrEmpty(header) == IF header = NoHeader THEN EmptyToken ELSE header

Returned(v) == [raised |-> FALSE, ret |-> v]
Raised == [raised |-> TRUE, ret |-> FALSE]

\* server.py:48: json.loads(base64.b64decode(seg + "==")), then .get("exp", 0)
\* compared with the clock reading `now`
ExpiryCheck(seg, now) ==
    CASE seg.kind \in {"notb64"}            -> Raised   \* binascii.Error
      [] seg.kind \in {"empty", "notjson"}  -> Raised   \* json.JSONDecodeError
      [] seg.kind = "nonobject"             -> Raised   \* AttributeError: no .get
      [] seg.kind = "expstr"                -> Raised   \* TypeError: str > int
      [] seg.kind = "noexp"                 -> Returned(0 > now)
      [] seg.kind = "exp"                   -> Returned(seg.exp > now)

\* the body of the try block, server.py:48-50
TryDecode(token, now) ==
    IF Len(token) < 2 THEN Raised   \* IndexError
    ELSE ExpiryCheck(token[2], now)

\* a handler that lets the exception through
CatchNothing(r) == r

\* the try/except of server.py:47-52: except Exception: return False
CatchAll(r) == IF r.raised THEN Returned(FALSE) ELSE r

\* verify_license(license_token), with the configuration and the clock it reads
verify_license(token, require, now) ==
    IF ~require THEN Returned(TRUE)
    ELSE IF token = EmptyToken THEN Returned(FALSE)
    ELSE CatchAll(TryDecode(token, now))

\* the clock verify_license reads: int(asyncio.get_event_loop().time())
LicenseClock == monotonic

\* The license check of a handler (server.py:139, 175, 209, 234):
\*   REQUIRE_VALID_LICENSE and not verify_license(x_rina_license or "")
\* "passed", "denied", or "raised" should verify_license raise
LicenseGate(header) ==
    IF ~REQUIRE_VALID_LICENSE THEN "passed"
    ELSE LET r == verify_license(OrEmpty(header), REQUIRE_VALID_LICENSE, LicenseClock)
         IN  IF r.raised THEN "raised"
             ELSE IF r.ret THEN "passed" ELSE "denied"

----------------------------------------------------------------------------
(* The admin gate, server.py:36-40 *)

\* A header or configuration value that is a string or None
None == [isNone |-> TRUE, s |-> << >>]
Str(s) == [isNone |-> FALSE, s |-> s]

ConfiguredKeys == { None, Str(<< >>), Str(<< "a", "b" >>) }
PresentedKeys ==
    { None, Str(<< >>), Str(<< "a" >>), Str(<< "a", "b" >>), Str(<< "a", "B" >>),
      Str(<< "a", "b", "c" >>) }

\* Python truthiness of an Optional[str]
Falsy(v) == v.isNone \/ v.s = << >>

\* a gate that checks the key only when the header is present
require_admin_present_only(x_rina_key, admin_key) ==
    IF Falsy(admin_key) THEN "allow"
    ELSE IF ~x_rina_key.isNone /\ x_rina_key # admin_key THEN "deny"
    ELSE "allow"

\* require_admin: "allow" when it returns, "deny" when it raises HTTPException(401)
require_admin(x_rina_key, admin_key) ==
    IF Falsy(admin_key) THEN "allow"
    ELSE IF x_rina_key # admin_key THEN "deny"
    ELSE "allow"

----------------------------------------------------------------------------
(* The completion adapter, rina_litellm_config.py *)

UserMessage(content) == [role |-> "user", content |-> content]

NoUrl == [form |-> "none", name |-> "", mime |-> "", b64 |-> << >>]
NoCall == [made |-> FALSE, fn |-> "", model |-> << >>, messages |-> << >>,
           prompt |-> "", url |-> NoUrl]

\* rina_ollama_json(prompt, model): the arguments of its completion() call
rina_ollama_json(prompt, model) ==
    [made |-> TRUE, fn |-> "completion", model |-> model,
     messages |-> << UserMessage(prompt) >>, prompt |-> prompt, url |-> NoUrl]

\* A chunk of the provider's stream, by what rina_ollama_stream reads of it:
\* whether it has `choices` ("absent", "empty" or "present"), whether the first
\* choice's delta has `content`, and that content
Chunk(choices, hasContent, content) ==
    [choices |-> choices, hasContent |-> hasContent, content |-> content]
Fragments == { "Hel", "lo" }
Chunks ==
    { Chunk("absent", FALSE, ""), Chunk("empty", FALSE, ""), Chunk("present", FALSE, "") }
    \cup { Chunk("present", TRUE, f) : f \in Fragments }

Yielded(tokens) == [raised |-> FALSE, tokens |-> tokens]
StreamRaised == [raised |-> TRUE, tokens |-> << >>]

\* a generator that yields the content field of every chunk
stream_every_chunk(chunk) == Yielded(<< chunk.content >>)

\* one turn of the loop of rina_ollama_stream, rina_litellm_config.py:16-20
rina_ollama_stream(chunk) ==
    IF chunk.choices = "absent" THEN Yielded(<< >>)
    ELSE IF chunk.choices = "empty" THEN StreamRaised   \* IndexError on choices[0]
    ELSE IF chunk.hasContent THEN Yielded(<< chunk.content >>)
    ELSE Yielded(<< >>)

\* the acompletion() call of rina_ollama_stream, rina_litellm_config.py:10-15
stream_call(prompt, model) ==
    [made |-> TRUE, fn |-> "acompletion_stream", model |-> model,
     messages |-> << UserMessage(prompt) >>, prompt |-> prompt, url |-> NoUrl]

\* the contents of a file in the model
ByteSeqs == { << >>, << 255 >>, << 77, 255 >>, << 255, 0, 77 >>, << 77, 255, 0, 255 >> }

RECURSIVE b64encode(_)
\* base64.b64encode: 3 bytes to 4 sextets; 64 stands for the padding "="
b64encode(bs) ==
    IF Len(bs) = 0 THEN << >>
    ELSE IF Len(bs) = 1
         THEN << bs[1] \div 4, (bs[1] % 4) * 16, 64, 64 >>
    ELSE IF Len(bs) = 2
         THEN << bs[1] \div 4, (bs[1] % 4) * 16 + bs[2] \div 16, (bs[2] % 16) * 4, 64 >>
    ELSE << bs[1] \div 4, (bs[1] % 4) * 16 + bs[2] \div 16,
            (bs[2] % 16) * 4 + bs[3] \div 64, bs[3] % 64 >>
         \o b64encode(SubSeq(bs, 4, Len(bs)))

\* mimetypes.guess_type(name)[0], by the name's extension
guess_type(ext) ==
    IF ext = "png" THEN Str("image/png")
    ELSE IF ext = "jpg" THEN Str("image/jpeg")
    ELSE None

\* An image string, by what startswith("data:") and open(image, "rb") make of it:
\*   fs = "file"       an existing readable file holding `bytes`
\*   fs = "missing"    open raises FileNotFoundError (a path that does not exist,
\*                     a URL, a short raw base64 string)
\*   fs = "directory"  open raises IsADirectoryError
\*   fs = "denied"     open raises PermissionError
\*   fs = "refused"    open raises OSError (ENAMETOOLONG: a long raw base64
\*                     string) or ValueError (an embedded NUL)
Image(name, data, fs, ext, bytes) ==
    [name |-> name, data |-> data, fs |-> fs, ext |-> ext, bytes |-> bytes]
EmptyImage == Image("", FALSE, "missing", "", << >>)
ImageStrings ==
    { Image("data:image/png;base64,AA==", TRUE, "missing", "", << >>),
      Image("/no/such.png", FALSE, "missing", "png", << >>),
      Image("http://host/cat.jpg", FALSE, "missing", "jpg", << >>),
      Image("aGk=", FALSE, "missing", "", << >>),
      Image("/tmp", FALSE, "directory", "", << >>),
      Image("/root/secret.png", FALSE, "denied", "png", << >>),
      Image("iVBORw0KGgo...(4 kB of base64)", FALSE, "refused", "", << >>) }
    \cup { Image("/img/pic.png", FALSE, "file", "png", b) : b \in ByteSeqs }
    \cup { Image("/img/pic.jpg", FALSE, "file", "jpg", << 255, 0, 77 >>),
           Image("/img/pic", FALSE, "file", "", << 77 >>) }

Forwarded(url) == [raised |-> FALSE, url |-> url]
OpenRaised == [raised |-> TRUE, url |-> NoUrl]
AsIs(image) == [form |-> "asis", name |-> image.name, mime |-> "", b64 |-> << >>]
DataUri(mime, b64) == [form |-> "data", name |-> "", mime |-> mime, b64 |-> b64]

\* the except clause of rina_litellm_config.py:42: only FileNotFoundError is caught
CaughtByExcept(fs) == fs = "missing"

\* vision_chat's normalisation of a str image, rina_litellm_config.py:35-47
NormalizeImage(image) ==
    IF ~image.data
    THEN IF image.fs = "file"
         THEN LET mime == guess_type(image.ext)
              IN  Forwarded(DataUri(IF mime.isNone THEN "image/png" ELSE mime.s,
                                    b64encode(image.bytes)))
         ELSE IF CaughtByExcept(image.fs) THEN Forwarded(AsIs(image))
         ELSE OpenRaised
    ELSE Forwarded(AsIs(image))

\* vision_chat's acompletion() call, rina_litellm_config.py:49-59
vision_call(url, text_prompt, model) ==
    [made |-> TRUE, fn |-> "acompletion", model |-> model, messages |-> << >>,
     prompt |-> text_prompt, url |-> url]

----------------------------------------------------------------------------
(* The HTTP handlers of server.py *)

\* the messages a /chat body carries in the model
SystemMessage == [role |-> "system", content |-> "be brief"]
MessageLists == { << >>, << UserMessage("q") >>, << SystemMessage, UserMessage("q") >> }
Contents == { "", "hi" }

\* A /chat body: `has` holds the keys present; an absent key's field is a filler
ChatBodies ==
    { [has |-> h, provider |-> p, content |-> c, messages |-> m] :
        h \in SUBSET {"provider", "content", "messages"},
        p \in Providers, c \in Contents, m \in MessageLists }
ChatPayloads ==
    { b \in ChatBodies :
        /\ "provider" \notin b.has => b.provider = "local"
        /\ "content" \notin b.has => b.content = ""
        /\ "messages" \notin b.has => b.messages = << >> }

\* A /vision body
VisionBodies ==
    { [has |-> h, provider |-> p, image |-> i, prompt |-> t] :
        h \in SUBSET {"provider", "image", "prompt"},
        p \in Providers, i \in ImageStrings \cup {EmptyImage}, t \in {"What do you see?", "colour?"} }
VisionPayloads ==
    { b \in VisionBodies :
        /\ "provider" \notin b.has => b.provider = "local"
        /\ "image" \notin b.has => b.image = EmptyImage
        /\ "prompt" \notin b.has <=> b.prompt = "What do you see?" }

\* What a handler did: the status it answered, how far the license check got
\* ("unreached", "passed", "denied" or "raised") and the call it made to the adapter
Outcome(status, gate, call) == [status |-> status, gate |-> gate, call |-> call]

\* chat_endpoint, server.py:125-166
chat_endpoint(payload, x_rina_license, providerOk) ==
    IF payload.has = {} THEN Outcome(400, "unreached", NoCall)
    ELSE
      LET provider == Get(payload, "provider", "local")
          content  == Get(payload, "content", "")
          messages == Get(payload, "messages", << UserMessage(content) >>)
      IN  IF content = "" /\ messages = << >> THEN Outcome(400, "unreached", NoCall)
          ELSE IF LicenseGate(x_rina_license) = "raised" THEN Outcome(500, "raised", NoCall)
          ELSE IF LicenseGate(x_rina_license) = "denied" THEN Outcome(402, "denied", NoCall)
          ELSE Outcome(IF providerOk THEN 200 ELSE 500, "passed",
                       rina_ollama_json(content, get_model(provider)))

\* vision_endpoint, server.py:223-260
vision_endpoint(payload, x_rina_license, providerOk) ==
    IF "image" \notin payload.has \/ payload.image = EmptyImage
    THEN Outcome(400, "unreached", NoCall)
    ELSE
      LET prompt   == Get(payload, "prompt", "What do you see?")
          provider == Get(payload, "provider", "local")
      IN  IF LicenseGate(x_rina_license) = "raised" THEN Outcome(500, "raised", NoCall)
          ELSE IF LicenseGate(x_rina_license) = "denied" THEN Outcome(402, "denied", NoCall)
          ELSE LET model == VisionModel(provider)
                   norm  == NormalizeImage(payload.image)
               IN  IF norm.raised THEN Outcome(500, "passed", NoCall)
                   ELSE Outcome(IF providerOk THEN 200 ELSE 500, "passed",
                                vision_call(norm.url, prompt, model))

\* admin_health_check behind Depends(require_admin), server.py:116-123
admin_health_check(x_rina_key) ==
    IF require_admin(x_rina_key, ADMIN_API_KEY) = "deny"
    THEN Outcome(401, "unreached", NoCall)
    ELSE Outcome(200, "unreached", NoCall)

NoPayload == [has |-> {}]
Exchange(ep, payload, key, license, out) ==
    [ep |-> ep, payload |-> payload, key |-> key, license |-> license,
     status |-> out.status, gate |-> out.gate, call |-> out.call,
     monotonic |-> monotonic, wallclock |-> wallclock]
Idle == [ep |-> "none", payload |-> NoPayload, key |-> None, license |-> NoHeader,
         status |-> 0, gate |-> "unreached", call |-> NoCall,
         monotonic |-> 0, wallclock |-> 0]

\* the headers and providers of the streaming requests in the model
StreamHeaders ==
    { NoHeader, << OpaqueSeg, Seg("exp", 0) >>,
      << OpaqueSeg, Seg("exp", MaxBootEpoch + MaxUptime + 1) >> }
StreamProviders == { "local", "azure" }

\* sse_endpoint up to its return, server.py:168-191; the adapter's call is made
\* when the response body is first iterated
sse_endpoint(content, provider, x_rina_license) ==
    IF content = "" THEN Outcome(400, "unreached", NoCall)
    ELSE IF LicenseGate(x_rina_license) = "raised" THEN Outcome(500, "raised", NoCall)
    ELSE IF LicenseGate(x_rina_license) = "denied" THEN Outcome(402, "denied", NoCall)
    ELSE Outcome(200, "passed", stream_call(content, get_model(provider)))

\* f"data: {token}\n\n", server.py:182
SseEvent(token) == << "data: ", token, "\n\n" >>

\* generate(), server.py:180-182, for the tokens one chunk yields
generate(tokens) == [i \in 1 .. Len(tokens) |-> SseEvent(tokens[i])]

SseExchange(content, provider, license, out) ==
    [content |-> content, provider |-> provider, license |-> license,
     status |-> out.status, gate |-> out.gate, call |-> out.call, monotonic |-> monotonic]
NoSseRequest ==
    [content |-> "", provider |-> "local", license |-> NoHeader,
     status |-> 0, gate |-> "unreached", call |-> NoCall, monotonic |-> 0]

\* The text frames a client sends on /ws/ai, by what json.loads makes of them:
\* "malformed" (json.loads raises), "nonobject" (a JSON list, string, number or
\* null: payload.get raises) or "object"
Message(json, has, content, provider) ==
    [json |-> json, has |-> has, content |-> content, provider |-> provider]
WsObjects ==
    { m \in { Message("object", h, c, p) :
                h \in SUBSET {"content", "provider"}, c \in Contents, p \in {"local", "groq"} } :
        /\ "content" \notin m.has => m.content = ""
        /\ "provider" \notin m.has <=> m.provider = "local" }
WsMessages ==
    { Message("malformed", {}, "", "local"), Message("nonobject", {}, "", "local") }
    \cup WsObjects
Received(msg) == [msg |-> msg, at |-> monotonic]
NoMessage == [msg |-> Message("none", {}, "", "local"), at |-> 0]
\* receive_text() raised WebSocketDisconnect
Disconnected == [msg |-> Message("disconnect", {}, "", "local"), at |-> monotonic]

ErrorFrame(detail) == [json |-> TRUE, body |-> detail]
TextFrame(token) == [json |-> FALSE, body |-> token]

Turn(next, frames, call) == [next |-> next, frames |-> frames, call |-> call]

\* a loop body that raises on a missing content instead of answering it
ws_message_raising(msg, x_rina_license) ==
    IF msg.json # "object" THEN Turn("raise", << >>, NoCall)
    ELSE IF Get(msg, "content", "") = "" THEN Turn("raise", << >>, NoCall)
    ELSE IF LicenseGate(x_rina_license) = "raised" THEN Turn("raise", << >>, NoCall)
    ELSE IF LicenseGate(x_rina_license) = "denied"
         THEN Turn("continue", << ErrorFrame("Payment Required / Invalid License") >>, NoCall)
    ELSE Turn("stream", << >>,
              stream_call(Get(msg, "content", ""), get_model(Get(msg, "provider", "local"))))

\* One turn of the loop of websocket_endpoint from json.loads to the stream,
\* server.py:200-216: "raise" (an exception reaches the except clause),
\* "continue" (back to receive_text) or "stream"
ws_message(msg, x_rina_license) ==
    IF msg.json = "malformed" THEN Turn("raise", << >>, NoCall)      \* json.JSONDecodeError
    ELSE IF msg.json = "nonobject" THEN Turn("raise", << >>, NoCall) \* AttributeError: no .get
    ELSE
      LET content == Get(msg, "content", "")
      IN  IF content = ""
          THEN Turn("continue", << ErrorFrame("Content required") >>, NoCall)
          ELSE IF LicenseGate(x_rina_license) = "raised" THEN Turn("raise", << >>, NoCall)
          ELSE IF LicenseGate(x_rina_license) = "denied"
               THEN Turn("continue", << ErrorFrame("Payment Required / Invalid License") >>, NoCall)
          ELSE Turn("stream", << >>,
                    stream_call(content, get_model(Get(msg, "provider", "local"))))

\* The except clause of websocket_endpoint, server.py:219-221. Its send_text
\* reaches a connected client; on a connection the client has left the server
\* library either raises (closedSendRaises) or drops the frame.
except_clause(client, closedSendRaises) ==
    IF client = "connected"
    THEN [pc |-> "exited", frames |-> << ErrorFrame("Internal server error") >>, final |-> 1]
    ELSE IF closedSendRaises
         THEN [pc |-> "crashed", frames |-> << >>, final |-> 0]
         ELSE [pc |-> "exited", frames |-> << >>, final |-> 0]

----------------------------------------------------------------------------
(* Initial state and actions *)

Init ==
    /\ ADMIN_API_KEY \in ConfiguredKeys
    /\ REQUIRE_VALID_LICENSE \in BOOLEAN
    /\ monotonic = 0
    /\ wallclock \in 1 .. MaxBootEpoch
    /\ http = Idle
    /\ ssePc = "idle" /\ sseReq = NoSseRequest /\ sseChunks = << >> /\ sseEvents = << >>
    /\ wsPc = "closed" /\ wsClient = "none" /\ wsLicense = NoHeader
    /\ wsLast = NoMessage /\ wsSent = << >> /\ wsCalls = << >> /\ wsIdx = 0
    /\ wsFinal = 0 /\ wsInvalid = 0 /\ wsMsgs = 0

\* a second passes on both clocks
Tick ==
    /\ monotonic < MaxUptime
    /\ monotonic' = monotonic + 1
    /\ wallclock' = wallclock + 1
    /\ UNCHANGED << configVars, http, sseVars, wsVars >>

ChatRequest ==
    /\ http.ep = "none"
    /\ \E payload \in ChatPayloads, license \in LicenseHeaders, providerOk \in BOOLEAN :
         http' = Exchange("chat", payload, None, license,
                          chat_endpoint(payload, license, providerOk))
    /\ UNCHANGED << configVars, clockVars, sseVars, wsVars >>

VisionRequest ==
    /\ http.ep = "none"
    /\ \E payload \in VisionPayloads, license \in LicenseHeaders, providerOk \in BOOLEAN :
         http' = Exchange("vision", payload, None, license,
                          vision_endpoint(payload, license, providerOk))
    /\ UNCHANGED << configVars, clockVars, sseVars, wsVars >>

AdminHealthRequest ==
    /\ http.ep = "none"
    /\ \E key \in PresentedKeys :
         http' = Exchange("admin", NoPayload, key, NoHeader, admin_health_check(key))
    /\ UNCHANGED << configVars, clockVars, sseVars, wsVars >>

\* the response is sent; the worker takes the next request
HttpDone ==
    /\ http.ep # "none"
    /\ http' = Idle
    /\ UNCHANGED << configVars, clockVars, sseVars, wsVars >>

NextHttp == Tick \/ ChatRequest \/ VisionRequest \/ AdminHealthRequest \/ HttpDone

SpecHttp == Init /\ [][NextHttp]_vars

SseRequest ==
    /\ ssePc = "idle"
    /\ \E content \in Contents, provider \in StreamProviders, license \in StreamHeaders :
         LET out == sse_endpoint(content, provider, license)
         IN  /\ sseReq' = SseExchange(content, provider, license, out)
             /\ ssePc' = IF out.status = 200 THEN "streaming" ELSE "rejected"
    /\ sseChunks' = << >>
    /\ sseEvents' = << >>
    /\ UNCHANGED << configVars, clockVars, http, wsVars >>

\* the provider produces its next chunk
SseChunk ==
    /\ ssePc = "streaming"
    /\ Len(sseChunks) < MaxChunks
    /\ \E chunk \in Chunks :
         LET y == rina_ollama_stream(chunk)
         IN  /\ sseChunks' = Append(sseChunks, chunk)
             /\ ssePc' = IF y.raised THEN "failed" ELSE "streaming"
             /\ sseEvents' = sseEvents \o generate(y.tokens)
    /\ UNCHANGED << configVars, clockVars, http, sseReq, wsVars >>

\* the provider's stream ends
SseEnd ==
    /\ ssePc = "streaming"
    /\ ssePc' = "done"
    /\ UNCHANGED << configVars, clockVars, http, sseReq, sseChunks, sseEvents, wsVars >>

\* the provider fails mid-stream
SseProviderError ==
    /\ ssePc = "streaming"
    /\ ssePc' = "failed"
    /\ UNCHANGED << configVars, clockVars, http, sseReq, sseChunks, sseEvents, wsVars >>

\* the client leaves: the generator is cancelled
SseClientGone ==
    /\ ssePc = "streaming"
    /\ ssePc' = "cancelled"
    /\ UNCHANGED << configVars, clockVars, http, sseReq, sseChunks, sseEvents, wsVars >>

\* the response is over; the next /sse request may come
SseClose ==
    /\ ssePc \in {"rejected", "done", "failed", "cancelled"}
    /\ ssePc' = "idle" /\ sseReq' = NoSseRequest /\ sseChunks' = << >> /\ sseEvents' = << >>
    /\ UNCHANGED << configVars, clockVars, http, wsVars >>

NextSse == Tick \/ SseRequest \/ SseChunk \/ SseEnd \/ SseProviderError \/ SseClientGone \/ SseClose

SpecSse == Init /\ [][NextSse]_vars

\* websocket.accept(), server.py:195
WsConnect ==
    /\ wsPc = "closed"
    /\ \E license \in StreamHeaders : wsLicense' = license
    /\ wsPc' = "receive" /\ wsClient' = "connected"
    /\ wsLast' = NoMessage /\ wsSent' = << >> /\ wsCalls' = << >> /\ wsIdx' = 0
    /\ wsFinal' = 0 /\ wsInvalid' = 0 /\ wsMsgs' = 0
    /\ UNCHANGED << configVars, clockVars, http, sseVars >>

\* an exception reaches the except clause
Except(closedSendRaises) ==
    LET e == except_clause(wsClient, closedSendRaises)
    IN  /\ wsPc' = e.pc
        /\ wsSent' = wsSent \o e.frames
        /\ wsFinal' = wsFinal + e.final

\* receive_text() returns a message and the loop body runs up to its next await
WsReceive ==
    /\ wsPc = "receive" /\ wsClient = "connected" /\ wsMsgs < MaxMsgs
    /\ \E msg \in WsMessages :
         LET t == ws_message(msg, wsLicense)
         IN  /\ wsLast' = Received(msg)
             /\ wsCalls' = IF t.call.made THEN << t.call >> ELSE << >>
             /\ wsInvalid' = IF t.frames = << ErrorFrame("Content required") >>
                             THEN wsInvalid + 1 ELSE wsInvalid
             /\ IF t.next = "raise"
                THEN LET e == except_clause(wsClient, TRUE)
                     IN  wsPc' = e.pc /\ wsSent' = t.frames \o e.frames /\ wsFinal' = wsFinal + e.final
                ELSE /\ wsPc' = IF t.next = "stream" THEN "stream" ELSE "receive"
                     /\ wsSent' = t.frames
                     /\ wsFinal' = wsFinal
    /\ wsMsgs' = wsMsgs + 1
    /\ wsIdx' = 0
    /\ UNCHANGED << configVars, clockVars, http, sseVars, wsClient, wsLicense >>

\* receive_text() raises WebSocketDisconnect: the client has left
WsReceiveDisconnect ==
    /\ wsPc = "receive" /\ wsClient = "gone"
    /\ wsLast' = Disconnected
    /\ \E closedSendRaises \in BOOLEAN : Except(closedSendRaises)
    /\ UNCHANGED << configVars, clockVars, http, sseVars, wsClient, wsLicense, wsCalls,
                    wsIdx, wsInvalid, wsMsgs >>

\* the provider produces its next chunk and the loop of server.py:216-217 sends
\* what rina_ollama_stream yields for it
WsChunk ==
    /\ wsPc = "stream" /\ wsIdx < MaxWsChunks
    /\ wsIdx' = wsIdx + 1
    /\ \E chunk \in Chunks, closedSendRaises \in BOOLEAN :
         LET y == rina_ollama_stream(chunk)
         IN  IF y.raised THEN Except(closedSendRaises)
             ELSE IF y.tokens = << >> THEN UNCHANGED << wsPc, wsSent, wsFinal >>
             ELSE IF wsClient = "connected"
                  THEN /\ wsSent' = Append(wsSent, TextFrame(y.tokens[1]))
                       /\ UNCHANGED << wsPc, wsFinal >>
             ELSE IF closedSendRaises THEN Except(closedSendRaises)
             ELSE UNCHANGED << wsPc, wsSent, wsFinal >>
    /\ UNCHANGED << configVars, clockVars, http, sseVars, wsClient, wsLicense, wsLast,
                    wsCalls, wsInvalid, wsMsgs >>

\* the provider's stream ends: back to receive_text()
WsStreamEnd ==
    /\ wsPc = "stream"
    /\ wsPc' = "receive"
    /\ UNCHANGED << configVars, clockVars, http, sseVars, wsClient, wsLicense, wsLast,
                    wsSent, wsCalls, wsIdx, wsFinal, wsInvalid, wsMsgs >>

\* the provider fails mid-stream
WsProviderError ==
    /\ wsPc = "stream"
    /\ \E closedSendRaises \in BOOLEAN : Except(closedSendRaises)
    /\ UNCHANGED << configVars, clockVars, http, sseVars, wsClient, wsLicense, wsLast,
                    wsCalls, wsIdx, wsInvalid, wsMsgs >>

\* the client closes the connection
WsClientDisconnect ==
    /\ wsPc \in {"receive", "stream"} /\ wsClient = "connected"
    /\ wsClient' = "gone"
    /\ UNCHANGED << configVars, clockVars, http, sseVars, wsPc, wsLicense, wsLast,
                    wsSent, wsCalls, wsIdx, wsFinal, wsInvalid, wsMsgs >>

NextWs == Tick \/ WsConnect \/ WsReceive \/ WsReceiveDisconnect \/ WsChunk \/ WsStreamEnd
            \/ WsProviderError \/ WsClientDisconnect

SpecWs == Init /\ [][NextWs]_vars

Next == NextHttp \/ NextSse \/ NextWs

Spec == Init /\ [][Next]_vars

----------------------------------------------------------------------------
(* Properties of the HTTP handlers and gates *)

ChatHandled == http.ep = "chat"
VisionHandled == http.ep = "vision"
AdminHandled == http.ep = "admin"

\* C1: POST /chat answers 400 to every body that supplies neither `content`
\* nor `messages`, before the license check and without a provider call; the
\* empty body is answered 400 too.
C1_NeitherSuppliedRejected ==
    (ChatHandled /\ "content" \notin http.payload.has /\ "messages" \notin http.payload.has)
        => (http.status = 400 /\ http.gate = "unreached" /\ ~http.call.made)

\* a token whose middle segment decodes to a JSON object with an integer `exp`
WellFormed(token) == Len(token) >= 2 /\ token[2].kind = "exp"
\* a handler ran the license check with enforcement on
GateRan == http.ep \in {"chat", "vision"} /\ REQUIRE_VALID_LICENSE /\ http.gate # "unreached"

\* C2: with enforcement on, a well-formed token is accepted if and only if its
\* `exp` is strictly greater than the Unix time at which it is checked.
C2_ExpiryAgainstUnixTime ==
    (GateRan /\ WellFormed(OrEmpty(http.license)))
        => (http.gate = "passed" <=> OrEmpty(http.license)[2].exp > http.wallclock)

\* empty, fewer than two segments, or a middle segment that is not base64, not
\* JSON, not an object, or an object without `exp`
Malformed(token) ==
    \/ token = EmptyToken
    \/ Len(token) < 2
    \/ token[2].kind \in {"empty", "notb64", "notjson", "nonobject", "noexp"}

\* C3: verify_license never raises; with enforcement on it returns false for
\* every malformed token, and a handler answers such a token 402; with
\* enforcement off it returns true for every token.
C3_FailClosedTotal ==
    /\ \A t \in Tokens :
         /\ \A require \in BOOLEAN : ~verify_license(t, require, monotonic).raised
         /\ Malformed(t) => verify_license(t, TRUE, monotonic) = Returned(FALSE)
         /\ verify_license(t, FALSE, monotonic) = Returned(TRUE)
    /\ (GateRan /\ Malformed(OrEmpty(http.license)))
         => (http.gate = "denied" /\ http.status = 402)
    /\ (http.ep \in {"chat", "vision"} /\ ~REQUIRE_VALID_LICENSE) => http.gate \in {"unreached", "passed"}

\* a handler has denied a token whose middle segment is not base64
C3_Witness ==
    /\ GateRan /\ Len(http.license) = 2 /\ http.license[2].kind = "notb64"
    /\ http.gate = "denied"

\* C8: GET /admin/health answers 200 to every caller when no admin key is
\* configured (unset or empty); when one is configured it answers 200 exactly
\* to the callers whose X-RINA-KEY equals it, and 401 to every other caller,
\* the caller without the header included.
C8_AdminGate ==
    AdminHandled =>
        /\ http.status \in {200, 401}
        /\ Falsy(ADMIN_API_KEY) => http.status = 200
        /\ ~Falsy(ADMIN_API_KEY) => (http.status = 200 <=> http.key = ADMIN_API_KEY)

\* a caller without the header has been denied under a configured key
C8_Witness ==
    AdminHandled /\ ~Falsy(ADMIN_API_KEY) /\ http.key = None /\ http.status = 401

\* the model id the claim expects /vision to pass on
OllamaLlava2 == << "o","l","l","a","m","a","/","l","l","a","v","a","2" >>
ExpectedVisionModel(provider) ==
    IF provider = "local" THEN OllamaLlava2
    ELSE IF provider = "openai" THEN Gpt4Turbo
    ELSE IF provider = "anthropic" THEN Claude3Sonnet
    ELSE IF provider = "groq" THEN Mixtral8x7b
    ELSE OllamaMistral

\* C9: the model /vision passes to the adapter is ollama/llava2 for `local`, the
\* mapped id for openai, anthropic and groq, and ollama/mistral for every
\* other provider.
C9_VisionModel ==
    (VisionHandled /\ http.call.made)
        => http.call.model = ExpectedVisionModel(Get(http.payload, "provider", "local"))

RECURSIVE b64decode(_)
\* base64 decoding of a padded sextet sequence
b64decode(q) ==
    IF Len(q) < 4 THEN << >>
    ELSE IF q[3] = 64 THEN << q[1] * 4 + q[2] \div 16 >>
    ELSE IF q[4] = 64 THEN << q[1] * 4 + q[2] \div 16, (q[2] % 16) * 16 + q[3] \div 4 >>
    ELSE << q[1] * 4 + q[2] \div 16, (q[2] % 16) * 16 + q[3] \div 4, (q[3] % 4) * 64 + q[4] >>
         \o b64decode(SubSeq(q, 5, Len(q)))

\* C10: vision_chat forwards unchanged every string image that does not start
\* with `data:` and names no existing readable file, raising nothing; for an
\* existing file it forwards a data URI whose payload decodes to the file's bytes.
C10_ImageNormalization ==
    (VisionHandled /\ http.gate = "passed" /\ ~http.payload.image.data)
        => /\ http.call.made
           /\ http.payload.image.fs # "file" => http.call.url = AsIs(http.payload.image)
           /\ http.payload.image.fs = "file" =>
                /\ http.call.url.form = "data"
                /\ b64decode(http.call.url.b64) = http.payload.image.bytes

----------------------------------------------------------------------------
(* Properties of the streaming handlers *)

\* a JSON object message whose `content` is missing or empty
InvalidContent(m) == m.json = "object" /\ Get(m, "content", "") = ""
\* a JSON object message with a content
ValidContent(m) == m.json = "object" /\ Get(m, "content", "") # ""
\* the gate denies the header at the clock reading `at`
Unlicensed(header, at) ==
    REQUIRE_VALID_LICENSE /\ ~verify_license(OrEmpty(header), TRUE, at).ret

\* C4: on /ws/ai a JSON message whose `content` is missing or empty gets exactly
\* one JSON "Content required" frame and no provider call, and the handler is
\* back at receive_text(); a valid licensed message is handed to the provider
\* and answered with text frames only, however many invalid ones came before.
C4_InvalidContentRecoverable ==
    /\ InvalidContent(wsLast.msg)
         => /\ wsPc = "receive"
            /\ wsSent = << ErrorFrame("Content required") >>
            /\ wsCalls = << >>
            /\ wsFinal = 0
            /\ wsInvalid >= 1
    /\ (ValidContent(wsLast.msg) /\ ~Unlicensed(wsLicense, wsLast.at))
         => /\ Len(wsCalls) = 1
            /\ wsCalls[1].prompt = wsLast.msg.content
            /\ \A i \in 1 .. (Len(wsSent) - wsFinal) : ~wsSent[i].json

\* two invalid messages, then a valid one streamed in full
C4_Witness ==
    /\ wsInvalid = 2 /\ ValidContent(wsLast.msg) /\ wsPc = "receive"
    /\ wsSent = << TextFrame("Hel"), TextFrame("lo") >>

\* C5: when the /ws/ai loop ends (client disconnect, malformed JSON, provider
\* failure) the handler has sent exactly one final generic error frame and has
\* exited cleanly: the final send does not raise out of the handler.
C5_ExitsWithOneFinalFrame ==
    wsPc \in {"exited", "crashed"}
        => /\ wsPc = "exited"
           /\ wsFinal = 1
           /\ wsSent # << >>
           /\ wsSent[Len(wsSent)] = ErrorFrame("Internal server error")

\* a chunk that has `choices` and a delta with `content`
ContentBearing(chunk) == chunk.choices = "present" /\ chunk.hasContent
SseOpen == ssePc \in {"streaming", "done", "failed", "cancelled"}

\* C6 as stated: a finished stream of N chunks has yielded N events, the i-th
\* carrying the i-th chunk, whatever the chunks' shape.
C6_EveryChunkOneEvent ==
    ssePc = "done"
        => /\ Len(sseEvents) = Len(sseChunks)
           /\ \A i \in 1 .. Len(sseChunks) :
                sseEvents[i] = << "data: ", sseChunks[i].content, "\n\n" >>

\* C6 as amended: the events written so far are the contents of the
\* content-bearing chunks produced so far, one event each, in the provider's
\* order; a chunk without `choices` or without a delta `content` yields no event.
C6_ContentChunksInOrder ==
    SseOpen =>
        LET bearing == SelectSeq(sseChunks, ContentBearing)
        IN  /\ Len(sseEvents) = Len(bearing)
            /\ \A i \in 1 .. Len(bearing) :
                 sseEvents[i] = << "data: ", bearing[i].content, "\n\n" >>

\* a finished stream of three chunks, the second without `choices`, two events
C6_Witness ==
    /\ ssePc = "done" /\ Len(sseChunks) = 3 /\ sseChunks[2].choices = "absent"
    /\ sseEvents = << SseEvent("lo"), SseEvent("Hel") >>

\* a /chat body with neither a content nor messages to send
ChatInvalid(p) == Get(p, "content", "") = "" /\ Get(p, "messages", << >>) = << >>
VisionInvalid(p) == "image" \notin p.has \/ p.image = EmptyImage

C7_ChatGate ==
    (ChatHandled /\ Unlicensed(http.license, http.monotonic))
        => /\ ~http.call.made
           /\ http.status = IF ChatInvalid(http.payload) THEN 400 ELSE 402
C7_VisionGate ==
    (VisionHandled /\ Unlicensed(http.license, http.monotonic))
        => /\ ~http.call.made
           /\ http.status = IF VisionInvalid(http.payload) THEN 400 ELSE 402
C7_SseGate ==
    (ssePc # "idle" /\ Unlicensed(sseReq.license, sseReq.monotonic))
        => /\ ~sseReq.call.made /\ ssePc = "rejected"
           /\ sseReq.status = IF sseReq.content = "" THEN 400 ELSE 402
C7_WsGate ==
    (wsLast.msg.json = "object" /\ Unlicensed(wsLicense, wsLast.at))
        => /\ wsCalls = << >> /\ wsPc = "receive"
           /\ wsSent = << ErrorFrame(IF InvalidContent(wsLast.msg) THEN "Content required"
                                     ELSE "Payment Required / Invalid License") >>

\* C7: with enforcement on, a request the gate denies never reaches the
\* adapter: /chat, /sse and /vision answer 402 and /ws/ai sends an error frame
\* and continues; an invalid unlicensed request gets the validation error.
C7_DeniedNeverCallsAdapter == C7_ChatGate /\ C7_VisionGate /\ C7_SseGate /\ C7_WsGate

----------------------------------------------------------------------------
(* The conversation /chat forwards *)

\* /chat passed validation and the license check and called the adapter
ChatCalled == ChatHandled /\ http.call.made

\* a body that supplies only `content` is sent as one user message with it
C11_ContentOnly ==
    (ChatCalled /\ "messages" \notin http.payload.has /\ "content" \in http.payload.has)
        => http.call.messages = << UserMessage(http.payload.content) >>

\* a body that supplies `messages` is sent as those messages, in order, and
\* not as an empty prompt
C11_MessagesSupplied ==
    (ChatCalled /\ "messages" \in http.payload.has)
        => /\ http.call.messages = http.payload.messages
           /\ ("content" \notin http.payload.has => http.call.prompt # "")

\* C11: whenever /chat calls the provider, the conversation it forwards is the
\* caller's: the supplied `messages` in order, or one user message holding the
\* supplied `content`; a body with only `messages` never arrives as an empty prompt.
C11_ForwardsCallerConversation == C11_ContentOnly /\ C11_MessagesSupplied

====
